---- MODULE Spec2Model ----
(***************************************************************************)
(* A model of wattle's decision-tree node (src/src/wattle.py): the Node    *)
(* arena, Node.__init__, Node.split and Node.prune, driven by a caller     *)
(* that constructs nodes, assigns children directly (as tests/node-tests   *)
(* does), and calls split and prune with arbitrary strategies.             *)
(*                                                                         *)
(* Python values are modelled with one shape per kind so that they can be  *)
(* compared: None is a record with py_none = TRUE, a raised exception is   *)
(* the string naming its type, and the booleans returned by split and      *)
(* prune are the strings "True" and "False".                               *)
(***************************************************************************)
EXTENDS Integers, Sequences, FiniteSets, TLC

\* ---------------------------------------------------------------- bounds
MaxNodes == 5       \* nodes ever constructed in one behaviour
MaxRows  == 2       \* records in the root's data frame
MaxQueryRows == 3   \* records in the data frame of a queried node

\* ------------------------------------------------------- Python plumbing
\* Names bound at module level of wattle.py: the imports and the classes.
ModuleGlobals == {"copy", "pd", "np", "dc", "Split_Test", "Node"}

\* Names assigned somewhere in the body of Node.split (its locals).
SplitLocals ==
  {"self", "split_func", "recursive", "split_func_args", "test", "children",
   "possible_values", "data_splits", "key", "split", "data",
   "class_attribute", "child", "parent_branch", "split_tests"}

\* The instance attributes Split_Test.__init__ sets.
SplitTestAttrs == {"attribute_type", "attribute", "split_value", "operator"}

\* Reading a name inside Node.split: a name that is neither a local of the
\* function nor a module global raises NameError.
NameIsBound(name) == name \in SplitLocals \cup ModuleGlobals

\* Reading an attribute of a Split_Test instance.
HasAttr(attr) == attr \in SplitTestAttrs

PyNone   == [tag |-> "None", num |-> 0, str |-> ""]
PyNum(x) == [tag |-> "num",  num |-> x, str |-> ""]
PyStr(s) == [tag |-> "str",  num |-> 0, str |-> s]

\* ------------------------------------------------------------ Split_Test
Split_Test(attribute_type, attribute, split_value, operator) ==
  [py_none        |-> FALSE,
   attribute_type |-> attribute_type,
   attribute      |-> attribute,
   split_value    |-> split_value,
   operator       |-> operator]

\* The value None where a Split_Test is expected (a strategy's "no split").
NoneTest ==
  [py_none |-> TRUE, attribute_type |-> "None", attribute |-> "None",
   split_value |-> PyNone, operator |-> "None"]

\* ------------------------------------------------------------ data frames
Columns == <<"LOC", "Kind", "Defective">>
NumericColumns == {"LOC", "Defective"}
ClassAttribute == "Defective"

Row(loc, kind, defective) ==
  [LOC |-> loc, Kind |-> kind, Defective |-> defective]

RowPool == {Row(50, "a", 0), Row(80, "b", 1)}

NoData == [py_none |-> TRUE, rows |-> <<>>]
Frame(rows) == [py_none |-> FALSE, rows |-> rows]

SeqsUpTo(S, n) == UNION {[1..k -> S] : k \in 0..n}

RootData == {NoData} \cup {Frame(r) : r \in SeqsUpTo(RowPool, MaxRows)}
ChildData == {NoData, Frame(<<Row(50, "a", 0)>>)}

\* str() of a class value.
StrOfClass(v) == IF v = 0 THEN "0" ELSE "1"

\* value_counts that counts every record under every class value.
ValueCounts_all(rows) ==
  LET present == {StrOfClass(rows[i].Defective) : i \in 1..Len(rows)}
  IN  [k \in present |-> Len(rows)]

\* data[class_attribute].value_counts().to_dict() with stringified keys.
ValueCounts(rows) ==
  LET present == {StrOfClass(rows[i].Defective) : i \in 1..Len(rows)}
  IN  [k \in present |->
         Cardinality({i \in 1..Len(rows) : StrOfClass(rows[i].Defective) = k})]

\* ---------------------------------------------------------------- Branch
Branch(parent, child, split_test) ==
  [py_none |-> FALSE, parent |-> parent, child |-> child,
   split_test |-> split_test]

NoBranch ==
  [py_none |-> TRUE, parent |-> 0, child |-> 0, split_test |-> NoneTest]

\* ------------------------------------------------------------------ Node
\* A Python int never equals a str: `column in categorical_indexes` tests a
\* column index against a list of column names.
IntEqualsStr(i, s) == FALSE

AttributeTypes(data) ==
  IF data.py_none THEN <<>>
  ELSE LET categorical_indexes ==
             {Columns[c] : c \in 1..Len(Columns)} \ NumericColumns
       IN  [c \in 1..Len(Columns) |->
              IF \E name \in categorical_indexes : IntEqualsStr(c - 1, name)
              THEN "categorical" ELSE "numerical"]

\* Node.__init__ with build = False.  The is_root and parent arguments are
\* accepted and not stored: is_root is set to False and parent to None
\* (node id 0) whatever the caller passes.
NewNode(data, class_attribute, is_root, parent, parent_branch) ==
  [data_points     |-> data,
   class_attribute |-> class_attribute,
   is_leaf         |-> TRUE,
   is_root         |-> FALSE,
   parent          |-> 0,
   children        |-> <<>>,
   child_branches  |-> <<>>,
   class_supports  |-> IF ~data.py_none /\ class_attribute # "None"
                       THEN ValueCounts(data.rows)
                       ELSE ValueCounts(<<>>),
   parent_branch   |-> parent_branch,
   attribute_types |-> AttributeTypes(data)]

\* nodes: the arena; nodes[i] is the Node object with identity i.
\* last:  the most recent call and what it returned or raised.
\* ret:   the arguments and the value returned by the most recent query
\*        (get_possible_splits, get_split_supports, num_errors) or build.
\* stack: the activations of Node.split that have not ended yet, innermost
\*        last, each with the line it is about to execute; empty between
\*        calls and wherever a call is taken as one step.
VARIABLES nodes, last, ret, stack

vars == <<nodes, last, ret, stack>>

Root == 1

Call(op, node, test, recursive, decision, was_leaf, result, called) ==
  [op |-> op, node |-> node, test |-> test, recursive |-> recursive,
   decision |-> decision, was_leaf |-> was_leaf, result |-> result,
   called |-> called]

NodeIds(ns) == 1..Len(ns)

ChildSet(ns, n) == {ns[n].children[i] : i \in 1..Len(ns[n].children)}

BranchSet(ns, n) ==
  {ns[n].child_branches[i] : i \in 1..Len(ns[n].child_branches)}

\* The records of node n, none when it was built without data.
RowsOf(ns, n) == ns[n].data_points.rows

\* Node.num_records: len(self.data_points), for a node built with data
\* (len(None) raises TypeError).
num_records(ns, self) == Len(ns[self].data_points.rows)

\* The sum of the values of a class_supports dictionary.
RECURSIVE SumSupports(_)
SumSupports(supports) ==
  IF DOMAIN supports = {} THEN 0
  ELSE LET k == CHOOSE x \in DOMAIN supports : TRUE
       IN  supports[k]
             + SumSupports([x \in DOMAIN supports \ {k} |-> supports[x]])

\* ---------------------------------------------------------- reachability
\* The node ids one reference away from n: its children, the ends of its
\* child branches and of its parent branch, and its parent.
Neighbours(ns, n) ==
  (ChildSet(ns, n)
     \cup {b.child : b \in BranchSet(ns, n)}
     \cup {b.parent : b \in BranchSet(ns, n)}
     \cup (IF ns[n].parent_branch.py_none THEN {}
           ELSE {ns[n].parent_branch.parent, ns[n].parent_branch.child})
     \cup {ns[n].parent}) \ {0}

RECURSIVE ReachFrom(_, _, _)
ReachFrom(ns, seen, fuel) ==
  LET more == seen \cup UNION {Neighbours(ns, n) : n \in seen}
  IN  IF fuel = 0 \/ more = seen THEN seen ELSE ReachFrom(ns, more, fuel - 1)

\* The nodes and the Branch objects reachable from the root.
Reach(ns) == ReachFrom(ns, {Root}, Len(ns))

ReachBranches(ns) ==
  UNION {BranchSet(ns, n) \cup
           (IF ns[n].parent_branch.py_none THEN {} ELSE {ns[n].parent_branch})
         : n \in Reach(ns)}

\* ----------------------------------------------------------- Node.split
\* The outcome of a call: what it returns or raises, whether the strategy
\* was invoked, and the arena afterwards.
Outcome(result, called, ns) ==
  [result |-> result, called |-> called, nodes |-> ns]

\* Line 229 reads test.attribute_name; Split_Test has no such attribute.
CategoricalLookupRaises == ~HasAttr("attribute_name")

\* Line 262 reads the bare name data_points (not self.data_points), which
\* is neither a local of split nor a module global.
NumericalMaskRaises == ~NameIsBound("data_points")

\* split without its `if not self.is_leaf` guard.
split_unguarded(ns, self, test, recursive) ==
  IF test.py_none THEN Outcome("False", TRUE, ns)
  ELSE IF test.attribute_type = "categorical" /\ CategoricalLookupRaises
  THEN Outcome("AttributeError", TRUE, ns)
  ELSE IF test.attribute_type = "numerical" /\ NumericalMaskRaises
  THEN Outcome("NameError", TRUE, ns)
  ELSE Outcome("False", TRUE, ns)

\* split without its `if test is None` early return: None.attribute_type.
split_no_none_check(ns, self, test, recursive) ==
  IF ~ns[self].is_leaf THEN Outcome("ValueError", FALSE, ns)
  ELSE IF test.py_none THEN Outcome("AttributeError", TRUE, ns)
  ELSE IF test.attribute_type = "categorical" /\ CategoricalLookupRaises
  THEN Outcome("AttributeError", TRUE, ns)
  ELSE IF test.attribute_type = "numerical" /\ NumericalMaskRaises
  THEN Outcome("NameError", TRUE, ns)
  ELSE Outcome("False", TRUE, ns)

\* split that gives the node two children, each holding all its records.
split_copies_records(ns, self, test, recursive) ==
  IF ~ns[self].is_leaf THEN Outcome("ValueError", FALSE, ns)
  ELSE IF test.py_none THEN Outcome("False", TRUE, ns)
  ELSE LET k == Len(ns)
           child == NewNode(ns[self].data_points, ns[self].class_attribute,
                            FALSE, self, NoBranch)
       IN  Outcome("True", TRUE,
             [ns \o <<child, child>> EXCEPT
                ![self].children = <<k + 1, k + 2>>,
                ![self].is_leaf = FALSE])

\* Node.split(split_func, recursive, split_func_args), where test is what
\* split_func(self, *split_func_args) returns when it is called.
\*   212-213  a non-leaf raises ValueError before the strategy is called;
\*   217-222  the strategy is called; None returns False;
\*   225-229  a categorical test raises AttributeError at line 229;
\*   255-262  a numerical test raises NameError at line 262;
\*   295-300  any other attribute_type leaves the local list children empty
\*            and returns False.
\* No path reaches the assignments of lines 296-297, so the arena is
\* returned as it was given; recursive is read only at lines 241 and 275,
\* which lie behind the two raising lines.
split(ns, self, test, recursive) ==
  IF ~ns[self].is_leaf THEN Outcome("ValueError", FALSE, ns)
  ELSE IF test.py_none THEN Outcome("False", TRUE, ns)
  ELSE IF test.attribute_type = "categorical" /\ CategoricalLookupRaises
  THEN Outcome("AttributeError", TRUE, ns)
  ELSE IF test.attribute_type = "numerical" /\ NumericalMaskRaises
  THEN Outcome("NameError", TRUE, ns)
  ELSE Outcome("False", TRUE, ns)

\* ----------------------------------------------------------- Node.prune
AllChildrenLeaves(ns, self) == \A c \in ChildSet(ns, self) : ns[c].is_leaf

\* prune without its non-leaf-child guard.
prune_unguarded(ns, self, decision) ==
  IF decision
  THEN Outcome("True", TRUE,
         [ns EXCEPT ![self].children = <<>>, ![self].is_leaf = TRUE,
                    ![self].child_branches = <<>>])
  ELSE Outcome("False", TRUE, ns)

\* prune that forgets to clear child_branches.
prune_keeps_branches(ns, self, decision) ==
  IF ~AllChildrenLeaves(ns, self) THEN Outcome("ValueError", FALSE, ns)
  ELSE IF decision
  THEN Outcome("True", TRUE,
         [ns EXCEPT ![self].children = <<>>, ![self].is_leaf = TRUE])
  ELSE Outcome("False", TRUE, ns)

\* prune that collapses the node whatever the strategy returns.
prune_ignores_decision(ns, self, decision) ==
  IF ~AllChildrenLeaves(ns, self) THEN Outcome("ValueError", FALSE, ns)
  ELSE Outcome(IF decision THEN "True" ELSE "False", TRUE,
         [ns EXCEPT ![self].children = <<>>, ![self].is_leaf = TRUE,
                    ![self].child_branches = <<>>])

\* prune that forgets to set is_leaf back to True.
prune_keeps_is_leaf(ns, self, decision) ==
  IF ~AllChildrenLeaves(ns, self) THEN Outcome("ValueError", FALSE, ns)
  ELSE IF decision
  THEN Outcome("True", TRUE,
         [ns EXCEPT ![self].children = <<>>, ![self].child_branches = <<>>])
  ELSE Outcome("False", TRUE, ns)

\* Node.prune(prune_func, prune_func_args), where decision is what
\* prune_func(self, *prune_func_args) returns when it is called.
prune(ns, self, decision) ==
  IF ~AllChildrenLeaves(ns, self) THEN Outcome("ValueError", FALSE, ns)
  ELSE IF decision
  THEN Outcome("True", TRUE,
         [ns EXCEPT ![self].children = <<>>, ![self].is_leaf = TRUE,
                    ![self].child_branches = <<>>])
  ELSE Outcome("False", TRUE, ns)

\* -------------------------------------------------------------- queries
\* The interpreters the module may run under.  Only two places behave
\* differently: `/` on two integers (line 357) and dict.iteritems (line 482).
PythonVersions == {2, 3}

\* A number with a fractional part of one half, held as twice its value.
PyHalf(twice) == [tag |-> "num/2", num |-> twice, str |-> ""]

\* What a query was given and what it produced.  raised is "" when the call
\* returned; num, tests and supports hold the returned int, list of
\* Split_Test or list of class-support dictionaries.
Ret(py, raised, num, tests, supports, opts) ==
  [py |-> py, raised |-> raised, num |-> num, tests |-> tests,
   supports |-> supports, opts |-> opts]

\* The keyword arguments of num_errors and of a building constructor call,
\* and the facts about the call that its return value does not show.
Opts(cost_sensitive, cost_keys, positive_class, positive_cheaper, costs_computed, args_given, args_received, recursive_received) ==
  [cost_sensitive |-> cost_sensitive, cost_keys |-> cost_keys,
   positive_class |-> positive_class, positive_cheaper |-> positive_cheaper,
   costs_computed |-> costs_computed, args_given |-> args_given,
   args_received |-> args_received,
   recursive_received |-> recursive_received]

NoOpts == Opts(FALSE, {}, "", FALSE, FALSE, <<>>, <<>>, FALSE)

NoRet == Ret(3, "", 0, <<>>, <<>>, NoOpts)

\* column.unique(): the distinct values in order of first appearance.
RECURSIVE Unique(_)
Unique(values) ==
  IF values = <<>> THEN <<>>
  ELSE LET front == Unique(SubSeq(values, 1, Len(values) - 1))
           x == values[Len(values)]
       IN  IF \E i \in 1..Len(front) : front[i] = x THEN front
           ELSE Append(front, x)

\* (a + b) / 2 on two integers: exact when the sum is even; otherwise the
\* floor under Python 2 and the float with a half under Python 3.
Midpoint(a, b, py) ==
  IF (a + b) % 2 = 0 \/ py = 2 THEN PyNum((a + b) \div 2)
  ELSE PyHalf(a + b)

\* The candidates of one column (lines 348-361).  A column of strings that
\* is typed 'numerical' raises TypeError at line 357 as soon as it has two
\* distinct values: (a + b) concatenates and `/ 2` is not defined on str.
ColumnSplits(rows, c, attribute_types, py) ==
  LET name == Columns[c]
      unique_values == Unique([i \in 1..Len(rows) |-> rows[i][name]])
  IN  IF attribute_types[c] = "categorical"
      THEN [raised |-> "",
            tests |-> <<Split_Test("categorical", name, PyNone, "None")>>]
      ELSE IF name \notin NumericColumns /\ Len(unique_values) >= 2
      THEN [raised |-> "TypeError", tests |-> <<>>]
      ELSE IF name \notin NumericColumns
      THEN [raised |-> "", tests |-> <<>>]
      ELSE [raised |-> "",
            tests |-> [j \in 1..(Len(unique_values) - 1) |->
                         Split_Test("numerical", name,
                           Midpoint(unique_values[j + 1], unique_values[j], py),
                           "None")]]

\* The loop of lines 347-361 over the columns from c on.
RECURSIVE SplitsFrom(_, _, _, _)
SplitsFrom(rows, c, attribute_types, py) ==
  IF c > Len(attribute_types) THEN [raised |-> "", tests |-> <<>>]
  ELSE LET here == ColumnSplits(rows, c, attribute_types, py)
           rest == SplitsFrom(rows, c + 1, attribute_types, py)
       IN  IF here.raised # "" THEN here
           ELSE IF rest.raised # "" THEN rest
           ELSE [raised |-> "", tests |-> here.tests \o rest.tests]

\* Node.get_possible_splits.  list(self.data_points) raises TypeError on a
\* node built without data.
get_possible_splits(ns, self, py) ==
  IF ns[self].data_points.py_none
  THEN Ret(py, "TypeError", 0, <<>>, <<>>, NoOpts)
  ELSE LET out == SplitsFrom(RowsOf(ns, self), 1, ns[self].attribute_types, py)
       IN  Ret(py, out.raised, 0, out.tests, <<>>, NoOpts)

\* get_split_supports hands split the strategy `lambda: split_test`, which
\* takes no argument (line 380); split calls its strategy with the node and
\* the (here empty) split_func_args (line 217).
LambdaParameters == 0
StrategyArguments == 1

\* Node.get_split_supports: split a deep copy of the node with a strategy
\* returning split_test and collect the class_supports of the copy's
\* children.  The copy's split raises ValueError on a non-leaf; otherwise
\* its call of the strategy raises TypeError when the argument count does
\* not fit.  The node itself is never touched.
get_split_supports(ns, self, split_test) ==
  IF ~ns[self].is_leaf
  THEN Ret(3, "ValueError", 0, <<>>, <<>>, NoOpts)
  ELSE IF LambdaParameters # StrategyArguments
  THEN Ret(3, "TypeError", 0, <<>>, <<>>, NoOpts)
  ELSE LET out == split(ns, self, split_test, FALSE)
           temp_node == out.nodes[self]
       IN  IF out.result \notin {"True", "False"}
           THEN Ret(3, out.result, 0, <<>>, <<>>, NoOpts)
           ELSE Ret(3, "", 0, <<>>,
                    [i \in 1..Len(temp_node.children) |->
                       out.nodes[temp_node.children[i]].class_supports],
                    NoOpts)

\* The keys num_errors requires of a cost matrix (line 460).
CostKeys == {"TP", "TN", "FP", "FN"}

\* np.sum of the supports of every class value but one (lines 422-423 and
\* 482-483).
SumExcept(supports, key) ==
  SumSupports([k \in DOMAIN supports \ {key} |-> supports[k]])

\* max(supports, key=lambda key: supports[key]): a class value of largest
\* support.
MajorityLabel(supports) ==
  CHOOSE k \in DOMAIN supports : \A j \in DOMAIN supports :
    supports[j] <= supports[k]

\* num_errors that checks the cost matrix whether or not cost_sensitive is
\* set.
num_errors_always_checks(ns, self, cost_sensitive, cost_keys, positive_class, positive_cheaper, py) ==
  LET supports == ns[self].class_supports
      given == Opts(cost_sensitive, cost_keys, positive_class,
                    positive_cheaper, FALSE, <<>>, <<>>, FALSE)
  IN  IF \E k \in CostKeys : k \notin cost_keys
      THEN Ret(py, "ValueError", -1, <<>>, <<>>, given)
      ELSE IF DOMAIN supports = {}
      THEN Ret(py, "ValueError", -1, <<>>, <<>>, given)
      ELSE Ret(py, "", SumExcept(supports, MajorityLabel(supports)),
               <<>>, <<>>, given)

\* Node.num_errors(cost_sensitive, cost_matrix, positive_class).  cost_keys
\* are the keys of cost_matrix; positive_cheaper is the outcome of
\* cost_positive <= cost_negative, two values computed by the datacost
\* package.
\*   459-461  cost-sensitive with a key missing: ValueError;
\*   464      num_positive reads class_supports[positive_class]: KeyError
\*            when the node holds no such class value;
\*   470-477  the costs are computed and the cheaper label decides;
\*   481      max() of an empty class_supports raises ValueError;
\*   482      dict.iteritems exists under Python 2 only: AttributeError
\*            under Python 3.
num_errors(ns, self, cost_sensitive, cost_keys, positive_class, positive_cheaper, py) ==
  LET supports == ns[self].class_supports
      given == Opts(cost_sensitive, cost_keys, positive_class,
                    positive_cheaper, FALSE, <<>>, <<>>, FALSE)
      costed == [given EXCEPT !.costs_computed = TRUE]
  IN  IF cost_sensitive
      THEN IF \E k \in CostKeys : k \notin cost_keys
           THEN Ret(py, "ValueError", -1, <<>>, <<>>, given)
           ELSE IF positive_class \notin DOMAIN supports
           THEN Ret(py, "KeyError", -1, <<>>, <<>>, given)
           ELSE IF positive_cheaper
           THEN Ret(py, "", SumExcept(supports, positive_class),
                    <<>>, <<>>, costed)
           ELSE Ret(py, "", supports[positive_class], <<>>, <<>>, costed)
      ELSE IF DOMAIN supports = {}
           THEN Ret(py, "ValueError", -1, <<>>, <<>>, given)
           ELSE IF py = 3
           THEN Ret(py, "AttributeError", -1, <<>>, <<>>, given)
           ELSE Ret(py, "", SumExcept(supports, MajorityLabel(supports)),
                    <<>>, <<>>, given)

\* ------------------------------------------------------------------ Tree
\* The nodes of the tree: the root and all its descendants.
RECURSIVE DescendantsFrom(_, _, _)
DescendantsFrom(ns, seen, fuel) ==
  LET more == seen \cup UNION {ChildSet(ns, n) : n \in seen}
  IN  IF fuel = 0 \/ more = seen THEN seen
      ELSE DescendantsFrom(ns, more, fuel - 1)

TreeNodes(ns) == DescendantsFrom(ns, {Root}, Len(ns))

\* A count that leaves the node itself out and counts only what is below.
RECURSIVE CountBelow(_, _, _)
CountBelow(ns, n, fuel) ==
  IF fuel = 0 THEN 0
  ELSE LET kids == ns[n].children
           RECURSIVE Over(_)
           Over(i) == IF i > Len(kids) THEN 0
                      ELSE 1 + CountBelow(ns, kids[i], fuel - 1) + Over(i + 1)
       IN  Over(1)

\* Tree.num_nodes, computed by traversal: a node counts one plus the counts
\* of its children, in order.
RECURSIVE CountFrom(_, _, _)
CountFrom(ns, n, fuel) ==
  IF fuel = 0 THEN 0
  ELSE LET kids == ns[n].children
           RECURSIVE Over(_)
           Over(i) == IF i > Len(kids) THEN 0
                      ELSE CountFrom(ns, kids[i], fuel - 1) + Over(i + 1)
       IN  1 + Over(1)

num_nodes_without_root(ns) == CountBelow(ns, Root, Len(ns))

num_nodes(ns) == CountFrom(ns, Root, Len(ns))

\* ----------------------------------------------- Node.__init__, build=True
\* Line 175 calls self.split(split_func, split_func_args): the argument list
\* lands in split's second parameter, recursive, where it counts as true
\* when it is not empty, and split's own split_func_args keeps its default,
\* the empty list.
BuildCall(split_func_args) ==
  [recursive |-> split_func_args # <<>>, split_func_args |-> <<>>]

\* Node(data, class_attribute, build=True, split_func=f, split_func_args=A),
\* the call split makes for every child when recursive is set (lines
\* 242-244 and 276-278).  f takes the node and the arguments A it was
\* written for; test is what f returns when its call succeeds.
build_node(ns, data, split_func_args, test) ==
  LET call == BuildCall(split_func_args)
      built == NewNode(data, ClassAttribute, FALSE, 0, NoBranch)
      seen == Opts(FALSE, {}, "", FALSE, FALSE, split_func_args,
                   call.split_func_args, call.recursive)
  IN  IF Len(call.split_func_args) # Len(split_func_args)
      THEN Ret(3, "TypeError", 0, <<>>, <<>>, seen)
      ELSE LET out == split(<<built>>, 1, test, call.recursive)
           IN  IF out.result \notin {"True", "False"}
               THEN Ret(3, out.result, 0, <<>>, <<>>, seen)
               ELSE Ret(3, "", 0, <<>>, <<>>, seen)

\* ------------------------------------------------------------ strategies
Thresholds == {70}

\* What a split strategy may return: None, a numerical test on LOC, a
\* categorical test on Kind, or a Split_Test() left at its defaults.
StrategyReturns ==
  {NoneTest}
    \cup {Split_Test("numerical", "LOC", PyNum(v), "None") : v \in Thresholds}
    \cup {Split_Test("categorical", "Kind", PyNone, "None")}
    \cup {Split_Test("None", "None", PyNone, "None")}

\* --------------------------------------------------------------- actions
Init ==
  /\ \E data \in RootData :
       nodes = <<NewNode(data, ClassAttribute, TRUE, 0, NoBranch)>>
  /\ last = Call("init", Root, NoneTest, FALSE, FALSE, TRUE, "None", FALSE)
  /\ ret = NoRet
  /\ stack = <<>>

\* node.split(strategy, recursive) on any node of the tree.
Split ==
  \E self \in Reach(nodes), test \in StrategyReturns, recursive \in BOOLEAN :
    LET out == split(nodes, self, test, recursive)
    IN  /\ nodes' = out.nodes
        /\ last' = Call("split", self, test, recursive, FALSE,
                        nodes[self].is_leaf, out.result, out.called)
        /\ ret' = ret
        /\ stack' = stack

\* node.prune(strategy) on any node of the tree.
Prune ==
  \E self \in Reach(nodes), decision \in BOOLEAN :
    LET out == prune(nodes, self, decision)
    IN  /\ nodes' = out.nodes
        /\ last' = Call("prune", self, NoneTest, FALSE, decision,
                        nodes[self].is_leaf, out.result, out.called)
        /\ ret' = ret
        /\ stack' = stack

\* The caller gives a childless node of the tree two freshly constructed
\* children and clears its is_leaf flag, as tests/node-tests.py does before
\* calling prune:
\*   node.children = [Node(), Node()]; node.is_leaf = False
\* With wire, it constructs them with parent=self and connects them with
\* Branch objects the way split's lines 242-251 and 276-289 do.
AttachChildren ==
  \E self \in Reach(nodes), d1 \in ChildData, wire \in BOOLEAN :
    LET k  == Len(nodes)
        d2 == NoData
        test == Split_Test("numerical", "LOC", PyNum(70), "None")
        b1 == IF wire THEN Branch(self, k + 1, test) ELSE NoBranch
        b2 == IF wire THEN Branch(self, k + 2, test) ELSE NoBranch
        c1 == NewNode(d1, IF d1.py_none THEN "None" ELSE ClassAttribute,
                      FALSE, IF wire THEN self ELSE 0, b1)
        c2 == NewNode(d2, IF d2.py_none THEN "None" ELSE ClassAttribute,
                      FALSE, IF wire THEN self ELSE 0, b2)
        grown == nodes \o <<c1, c2>>
    IN  /\ nodes[self].children = <<>>
        /\ k + 2 <= MaxNodes
        /\ nodes' = [grown EXCEPT
                       ![self].children = <<k + 1, k + 2>>,
                       ![self].is_leaf = FALSE,
                       ![self].child_branches =
                          IF wire THEN <<b1, b2>> ELSE <<>>]
        /\ last' = Call("attach", self, NoneTest, FALSE, FALSE,
                        nodes[self].is_leaf, "None", FALSE)
        /\ ret' = ret
        /\ stack' = stack

Next == Split \/ Prune \/ AttachChildren

Spec == Init /\ [][Next]_vars

\* ------------------------------------------------- the query behaviours
\* A second set of behaviours: one node, built from a data frame or given
\* its class_supports directly, on which the read-only operations and the
\* building constructor are called.
QueryRowPool ==
  {Row(50, "a", 0), Row(80, "a", 1), Row(60, "a", 0), Row(60, "b", 1)}

\* The LOC / Defective records (50,0), (80,1), (90,1), (60,0).
ScenarioFrame ==
  Frame(<<Row(50, "a", 0), Row(80, "a", 1), Row(90, "a", 1), Row(60, "a", 0)>>)

QueryData ==
  {NoData, ScenarioFrame}
    \cup {Frame(r) : r \in SeqsUpTo(QueryRowPool, MaxQueryRows)}

\* class_supports dictionaries a caller assigns to a node built without
\* data, as tests/node-tests.py does with {'Y' : 35, 'N' : 11}.
AssignedSupports ==
  {("Y" :> 35) @@ ("N" :> 11), ("Y" :> 2) @@ ("N" :> 2), ("Y" :> 3)}

QueryInit ==
  /\ \/ \E data \in QueryData :
          nodes = <<NewNode(data, ClassAttribute, TRUE, 0, NoBranch)>>
     \/ \E supports \in AssignedSupports :
          nodes = <<[NewNode(NoData, "None", FALSE, 0, NoBranch)
                       EXCEPT !.class_supports = supports]>>
  /\ last = Call("init", Root, NoneTest, FALSE, FALSE, TRUE, "None", FALSE)
  /\ ret = NoRet
  /\ stack = <<>>

\* "returned", or the name of the exception the query raised.
Completion(r) == IF r.raised = "" THEN "returned" ELSE r.raised

\* node.get_possible_splits()
GetPossibleSplits ==
  \E py \in PythonVersions :
    LET r == get_possible_splits(nodes, Root, py)
    IN  /\ ret' = r
        /\ last' = Call("get_possible_splits", Root, NoneTest, FALSE, FALSE,
                        nodes[Root].is_leaf, Completion(r), FALSE)
        /\ nodes' = nodes
        /\ stack' = stack

\* node.get_split_supports(split_test)
GetSplitSupports ==
  \E split_test \in StrategyReturns :
    LET r == get_split_supports(nodes, Root, split_test)
    IN  /\ ret' = r
        /\ last' = Call("get_split_supports", Root, split_test, FALSE, FALSE,
                        nodes[Root].is_leaf, Completion(r), FALSE)
        /\ nodes' = nodes
        /\ stack' = stack

\* The cost matrices a caller passes: complete, one key short, or empty.
CostMatrices == {CostKeys, {}} \cup {CostKeys \ {k} : k \in CostKeys}

PositiveClasses == {"1", "Y"}

\* node.num_errors(cost_sensitive, cost_matrix, positive_class)
NumErrors ==
  \E cost_sensitive \in BOOLEAN, cost_keys \in CostMatrices,
     positive_class \in PositiveClasses, positive_cheaper \in BOOLEAN,
     py \in PythonVersions :
    LET r == num_errors(nodes, Root, cost_sensitive, cost_keys,
                        positive_class, positive_cheaper, py)
    IN  /\ ret' = r
        /\ last' = Call("num_errors", Root, NoneTest, FALSE, FALSE,
                        nodes[Root].is_leaf, Completion(r), FALSE)
        /\ nodes' = nodes
        /\ stack' = stack

\* The argument lists a caller gives its strategy: none, or the positive
\* class and a cost matrix as in tests/node-tests.py.
StrategyArgLists == {<<>>, <<"1", "cost_matrix">>}

\* Node(data, class_attribute, build=True, split_func, split_func_args) on
\* the data of the node; the object built is not kept.
BuildNode ==
  \E split_func_args \in StrategyArgLists, test \in StrategyReturns :
    LET r == build_node(nodes, nodes[Root].data_points, split_func_args, test)
    IN  /\ ret' = r
        /\ last' = Call("build", Root, test, FALSE, FALSE,
                        nodes[Root].is_leaf, Completion(r), FALSE)
        /\ nodes' = nodes
        /\ stack' = stack

QueryNext == GetPossibleSplits \/ GetSplitSupports \/ NumErrors \/ BuildNode

QuerySpec == QueryInit /\ [][QueryNext]_vars

\* ------------------------------------------------ split, one line at a time
\* A third set of behaviours: Node.split executed statement by statement, to
\* follow a call from its start to its return or raise.

\* An activation of split: the node, the line about to execute, what the
\* strategy returned (None until line 217 has run) and the recursive flag.
Activation(node, line, test, recursive) ==
  [node |-> node, line |-> line, test |-> test, recursive |-> recursive]

\* The root as tests/node-tests.py makes it an internal node: two children
\* built without data are assigned and is_leaf is cleared.
InternalRoot(data) ==
  <<[NewNode(data, ClassAttribute, TRUE, 0, NoBranch)
       EXCEPT !.children = <<2, 3>>, !.is_leaf = FALSE],
    NewNode(NoData, "None", FALSE, 0, NoBranch),
    NewNode(NoData, "None", FALSE, 0, NoBranch)>>

RunInit ==
  /\ \E data \in RootData :
       \/ nodes = <<NewNode(data, ClassAttribute, TRUE, 0, NoBranch)>>
       \/ nodes = InternalRoot(data)
  /\ last = Call("init", Root, NoneTest, FALSE, FALSE, TRUE, "None", FALSE)
  /\ ret = NoRet
  /\ stack = <<>>

\* The innermost activation.
Top == stack[Len(stack)]

At(line) == stack # <<>> /\ Top.line = line

\* The innermost activation moves on to another line.
Goto(line) ==
  /\ stack' = [stack EXCEPT ![Len(stack)].line = line]
  /\ UNCHANGED <<nodes, last, ret>>

\* The innermost activation ends, returning or raising result.
Leave(result, called) ==
  /\ stack' = SubSeq(stack, 1, Len(stack) - 1)
  /\ last' = Call("split", Top.node, Top.test, Top.recursive, FALSE,
                  nodes[Top.node].is_leaf, result, called)
  /\ UNCHANGED <<nodes, ret>>

\* The caller starts node.split(strategy, recursive) on a node of the tree.
CallSplit ==
  /\ stack = <<>>
  /\ \E self \in Reach(nodes), recursive \in BOOLEAN :
       stack' = <<Activation(self, 212, NoneTest, recursive)>>
  /\ UNCHANGED <<nodes, last, ret>>

\* Lines 212-213: a non-leaf raises ValueError.
CheckLeaf ==
  /\ At(212)
  /\ IF ~nodes[Top.node].is_leaf
     THEN Leave("ValueError", FALSE)
     ELSE Goto(217)

\* Line 217: the strategy is called with the node.  It returns None, or it
\* consults get_possible_splits of the node (whose exception it lets
\* through) and returns one of the candidates, or it returns a test of its
\* own making.
CallStrategy ==
  /\ At(217)
  /\ \/ \E test \in StrategyReturns :
          /\ stack' = [stack EXCEPT ![Len(stack)].test = test,
                                    ![Len(stack)].line = 221]
          /\ UNCHANGED <<nodes, last, ret>>
     \/ \E py \in PythonVersions :
          LET found == get_possible_splits(nodes, Top.node, py)
          IN  IF found.raised # ""
              THEN Leave(found.raised, TRUE)
              ELSE /\ \E i \in 1..Len(found.tests) :
                        stack' = [stack EXCEPT
                                    ![Len(stack)].test = found.tests[i],
                                    ![Len(stack)].line = 221]
                   /\ UNCHANGED <<nodes, last, ret>>

\* Lines 221-225 and 255: None returns False; otherwise the attribute type
\* of the test selects the branch, and a type that is neither falls through
\* to line 295 with the local list children still empty.
Dispatch ==
  /\ At(221)
  /\ IF Top.test.py_none THEN Leave("False", TRUE)
     ELSE IF Top.test.attribute_type = "categorical" THEN Goto(229)
     ELSE IF Top.test.attribute_type = "numerical" THEN Goto(262)
     ELSE Goto(295)

\* Line 229: self.data_points.loc(test.attribute_name).
CategoricalLookup ==
  /\ At(229)
  /\ CategoricalLookupRaises
  /\ Leave("AttributeError", TRUE)

\* A numerical branch that, in place of raising, splits the node anew.
NumericalMask_again ==
  /\ At(262)
  /\ Goto(212)

\* Line 262: data_points[test.attribute <= test.split_value].
NumericalMask ==
  /\ At(262)
  /\ NumericalMaskRaises
  /\ Leave("NameError", TRUE)

\* Lines 295-300 with children empty: return False.
ReturnNoChildren ==
  /\ At(295)
  /\ Leave("False", TRUE)

\* The statements of a running call.  Lines 230-252 and 263-289, the loops
\* that construct children (and, with recursive set, split each of them
\* from its constructor), lie behind lines 229 and 262.
RunStep ==
  \/ CheckLeaf
  \/ CallStrategy
  \/ Dispatch
  \/ CategoricalLookup
  \/ NumericalMask
  \/ ReturnNoChildren

RunNext == CallSplit \/ RunStep

\* The interpreter is single-threaded and synchronous: a call that has
\* started keeps executing its next statement.
RunSpec == RunInit /\ [][RunNext]_vars /\ WF_vars(RunStep)

\* ------------------------------------------- split and prune calls alone
\* A fourth set of behaviours: a fresh root, built from data, on which the
\* caller does nothing but call split and prune.
TreeInit ==
  /\ \E data \in QueryData :
       nodes = <<NewNode(data, ClassAttribute, TRUE, 0, NoBranch)>>
  /\ last = Call("init", Root, NoneTest, FALSE, FALSE, TRUE, "None", FALSE)
  /\ ret = NoRet
  /\ stack = <<>>

TreeNext == Split \/ Prune

TreeSpec == TreeInit /\ [][TreeNext]_vars

\* ---------------------------------------------------------------- claims

\* C1: a split called on a node whose is_leaf is false raises ValueError
\* (InvalidState), does not invoke the strategy, and leaves every field of
\* every node as it was.
C1_SplitNonLeafFails ==
  [][(last'.op = "split" /\ ~nodes[last'.node].is_leaf)
       => (/\ last'.result = "ValueError"
           /\ ~last'.called
           /\ nodes' = nodes)]_vars

C1_Witness ==
  /\ last.op = "split"
  /\ ~last.was_leaf
  /\ last.result = "ValueError"
  /\ nodes[last.node].children # <<>>

\* C2: when the strategy returns None for a leaf, split returns False and
\* mutates nothing: the node is still a leaf with no children and no child
\* branches, and every node's data_points and class_supports are unchanged.
C2_SplitNoneIsNoOp ==
  [][(last'.op = "split" /\ nodes[last'.node].is_leaf /\ last'.test.py_none)
       => (/\ last'.result = "False"
           /\ last'.called
           /\ nodes' = nodes
           /\ nodes'[last'.node].is_leaf
           /\ nodes'[last'.node].children = <<>>
           /\ nodes'[last'.node].child_branches = <<>>)]_vars

C2_Witness ==
  /\ last.op = "split"
  /\ last.was_leaf
  /\ last.test.py_none
  /\ last.result = "False"
  /\ ~nodes[last.node].data_points.py_none
  /\ Len(nodes[last.node].data_points.rows) > 0

\* A Split_Test is degenerate on a node when it does not separate the
\* node's records: a numerical threshold with every record on one side, or
\* a categorical attribute with fewer than two observed values.
Separates(ns, n, t) ==
  LET rows == RowsOf(ns, n)
  IN  /\ ~t.py_none
      /\ \/ /\ t.attribute_type = "numerical"
            /\ \E i, j \in 1..Len(rows) :
                 /\ rows[i][t.attribute] <= t.split_value.num
                 /\ rows[j][t.attribute] > t.split_value.num
         \/ /\ t.attribute_type = "categorical"
            /\ \E i, j \in 1..Len(rows) :
                 rows[i][t.attribute] # rows[j][t.attribute]

\* The number of occurrences of record r in a sequence of records.
Occurrences(rows, r) == Cardinality({i \in 1..Len(rows) : rows[i] = r})

\* C3: a split that returns True leaves the node with is_leaf false, a
\* non-empty children list and a child_branches list of the same length
\* whose i-th Branch joins the node to children[i].  Stated on the case the
\* tests assert to succeed (test_split_return): a leaf split on a test that
\* separates its records returns True with that postcondition.
C3_SplitTruePostcondition ==
  (last.op = "split" /\ last.was_leaf /\ Separates(nodes, last.node, last.test))
    => LET self == nodes[last.node]
       IN  /\ last.result = "True"
           /\ ~self.is_leaf
           /\ self.children # <<>>
           /\ Len(self.child_branches) = Len(self.children)
           /\ \A i \in 1..Len(self.children) :
                /\ self.child_branches[i].child = self.children[i]
                /\ self.child_branches[i].parent = last.node

\* C4: a split of a leaf on a numerical test (attribute a, value v) that
\* separates its records creates exactly two children, left then right; the
\* left child holds exactly the node's records with a <= v and the right
\* child exactly those with a > v.
C4_NumericalSplitTwoChildren ==
  (last.op = "split" /\ last.was_leaf
     /\ last.test.attribute_type = "numerical"
     /\ Separates(nodes, last.node, last.test))
    => LET self == nodes[last.node]
           a == last.test.attribute
           v == last.test.split_value.num
           rows == RowsOf(nodes, last.node)
       IN  /\ Len(self.children) = 2
           /\ RowsOf(nodes, self.children[1])
                = SelectSeq(rows, LAMBDA r : r[a] <= v)
           /\ RowsOf(nodes, self.children[2])
                = SelectSeq(rows, LAMBDA r : r[a] > v)

\* C5: after a split on a numerical test, the test held by the left child's
\* parent_branch has operator "<=" and the one held by the right child's
\* parent_branch has operator ">", both with the attribute and split_value
\* of the test the strategy returned.
C5_NumericalOperatorsComplementary ==
  (last.op = "split" /\ last.was_leaf
     /\ last.test.attribute_type = "numerical"
     /\ Separates(nodes, last.node, last.test))
    => LET self == nodes[last.node]
           lt == nodes[self.children[1]].parent_branch.split_test
           rt == nodes[self.children[2]].parent_branch.split_test
       IN  /\ Len(self.children) = 2
           /\ lt.operator = "<=" /\ rt.operator = ">"
           /\ lt.attribute = last.test.attribute
           /\ rt.attribute = last.test.attribute
           /\ lt.split_value = last.test.split_value
           /\ rt.split_value = last.test.split_value

\* C6: a split of a leaf on a categorical test for attribute a creates one
\* child per distinct value of a among the node's own records; the child for
\* value x holds exactly the node's records with a = x and its parent_branch
\* carries a Split_Test whose split_value is x.
C6_CategoricalSplitPerValue ==
  (last.op = "split" /\ last.was_leaf
     /\ last.test.attribute_type = "categorical"
     /\ Separates(nodes, last.node, last.test))
    => LET self == nodes[last.node]
           a == last.test.attribute
           rows == RowsOf(nodes, last.node)
           observed == {rows[i][a] : i \in 1..Len(rows)}
       IN  /\ Len(self.children) = Cardinality(observed)
           /\ \A x \in observed :
                \E i \in 1..Len(self.children) :
                  /\ RowsOf(nodes, self.children[i])
                       = SelectSeq(rows, LAMBDA r : r[a] = x)
                  /\ nodes[self.children[i]].parent_branch.split_test.split_value
                       = PyStr(x)

\* C7: a split (numerical or categorical) neither drops nor duplicates a
\* record: the node it turns into an internal node has children whose
\* records, taken together as a multiset, are the node's records.
C7_SplitPartitionsRecords ==
  (last.op = "split" /\ last.was_leaf
     /\ Separates(nodes, last.node, last.test))
    => LET self == nodes[last.node]
           rows == RowsOf(nodes, last.node)
           held(r) == {<<i, k>> \in (1..Len(self.children)) \X (1..MaxRows + 1) :
                         /\ k <= Len(RowsOf(nodes, self.children[i]))
                         /\ RowsOf(nodes, self.children[i])[k] = r}
       IN  /\ ~self.is_leaf
           /\ \A r \in RowPool : Cardinality(held(r)) = Occurrences(rows, r)

\* C8: a split of a leaf on a degenerate test (one that does not separate
\* the node's records) returns False and the node stays a leaf with no
\* children.
C8_DegenerateSplitReturnsFalse ==
  (last.op = "split" /\ last.was_leaf /\ ~last.test.py_none
     /\ last.test.attribute_type \in {"numerical", "categorical"}
     /\ Len(RowsOf(nodes, last.node)) > 0
     /\ ~Separates(nodes, last.node, last.test))
    => /\ last.result = "False"
       /\ nodes[last.node].is_leaf
       /\ nodes[last.node].children = <<>>

\* C9: prune called on a node with at least one non-leaf child raises
\* ValueError (InvalidState), does not invoke the prune strategy, and changes
\* no node.
C9_PruneNonLeafChildFails ==
  [][(last'.op = "prune"
        /\ \E c \in ChildSet(nodes, last'.node) : ~nodes[c].is_leaf)
       => (/\ last'.result = "ValueError"
           /\ ~last'.called
           /\ nodes' = nodes)]_vars

C9_Witness ==
  /\ last.op = "prune"
  /\ last.result = "ValueError"
  /\ \E c \in ChildSet(nodes, last.node) : nodes[c].children # <<>>

\* C10: when every child of a node is a leaf and the prune strategy returns
\* true, prune returns True; afterwards the node is a leaf with no children
\* and no child branches, and none of the children and branches it had is
\* reachable from the root.
C10_PruneCollapses ==
  [][(last'.op = "prune" /\ AllChildrenLeaves(nodes, last'.node)
        /\ last'.decision)
       => (/\ last'.result = "True"
           /\ last'.called
           /\ nodes'[last'.node].is_leaf
           /\ nodes'[last'.node].children = <<>>
           /\ nodes'[last'.node].child_branches = <<>>
           /\ ChildSet(nodes, last'.node) \cap Reach(nodes') = {}
           /\ BranchSet(nodes, last'.node) \cap ReachBranches(nodes') = {})]_vars

\* A prune that returned True on a node inside the tree whose discarded
\* children were connected to it by Branch objects.
C10_Witness ==
  /\ last.op = "prune"
  /\ last.result = "True"
  /\ ~last.was_leaf
  /\ last.node \in Reach(nodes)
  /\ nodes[last.node].children = <<>>
  /\ \E c \in NodeIds(nodes) :
       /\ ~nodes[c].parent_branch.py_none
       /\ nodes[c].parent_branch.parent = last.node
       /\ c \notin Reach(nodes)

\* C11: when the prune strategy returns false, prune returns False and the
\* children, child_branches and is_leaf of every node are what they were
\* before the call.
C11_PruneDeclinedIsNoOp ==
  [][(last'.op = "prune" /\ last'.called /\ ~last'.decision)
       => (/\ last'.result = "False"
           /\ \A n \in NodeIds(nodes) :
                /\ nodes'[n].children = nodes[n].children
                /\ nodes'[n].child_branches = nodes[n].child_branches
                /\ nodes'[n].is_leaf = nodes[n].is_leaf
           /\ Len(nodes') = Len(nodes))]_vars

\* A declined prune of a node that has children connected by branches.
C11_Witness ==
  /\ last.op = "prune"
  /\ last.called
  /\ ~last.decision
  /\ last.result = "False"
  /\ nodes[last.node].children # <<>>
  /\ nodes[last.node].child_branches # <<>>

\* C12: in every state reached by split and prune calls on nodes of the
\* tree, failed and declined calls included, every node has
\* is_leaf = (children is empty).
C12_LeafIffNoChildren ==
  \A n \in NodeIds(nodes) : nodes[n].is_leaf = (nodes[n].children = <<>>)

\* A prune has just collapsed an internal node below a root that is still
\* internal.
C12_Witness ==
  /\ last.op = "prune"
  /\ last.result = "True"
  /\ ~last.was_leaf
  /\ nodes[last.node].is_leaf
  /\ last.node # Root
  /\ ~nodes[Root].is_leaf

\* C13: for every node built from data and a class attribute (the root and
\* every child), class_supports maps each class value that occurs in the
\* node's data_points to the number of records holding it, and its values
\* sum to num_records().
C13_ClassSupportsCountRecords ==
  \A n \in NodeIds(nodes) :
    (~nodes[n].data_points.py_none /\ nodes[n].class_attribute # "None")
      => LET rows == RowsOf(nodes, n)
             holding(v) == {i \in 1..Len(rows) : rows[i].Defective = v}
             occurring == {rows[i].Defective : i \in 1..Len(rows)}
         IN  /\ DOMAIN nodes[n].class_supports
                  = {StrOfClass(v) : v \in occurring}
             /\ \A v \in occurring :
                  nodes[n].class_supports[StrOfClass(v)]
                    = Cardinality(holding(v))
             /\ SumSupports(nodes[n].class_supports) = num_records(nodes, n)

\* A root holding records of both classes and a child holding a record.
C13_Witness ==
  /\ DOMAIN nodes[Root].class_supports = {"0", "1"}
  /\ num_records(nodes, Root) = 2
  /\ \E c \in ChildSet(nodes, Root) :
       /\ ~nodes[c].data_points.py_none
       /\ SumSupports(nodes[c].class_supports) = 1

\* C14: every non-root node constructed and connected the way split does it
\* (Node(parent=self, ...), then child.parent_branch = Branch(self, child,
\* test)) has a non-null parent_branch whose child is the node itself and
\* whose parent is the node's parent.
C14_ParentBranchMatchesParent ==
  \A p \in Reach(nodes) :
    \A i \in 1..Len(nodes[p].child_branches) :
      LET c == nodes[p].children[i]
      IN  /\ ~nodes[c].parent_branch.py_none
          /\ nodes[c].parent_branch.child = c
          /\ nodes[c].parent_branch.parent = nodes[c].parent

\* The elements of a finite set of integers in ascending order.
RECURSIVE Ascending(_)
Ascending(S) ==
  IF S = {} THEN <<>>
  ELSE LET least == CHOOSE x \in S : \A y \in S : x <= y
       IN  <<least>> \o Ascending(S \ {least})

\* C15: for a numerical column with k distinct values, get_possible_splits
\* returns exactly k-1 candidates for that column (none when k <= 1), whose
\* split values are the midpoints of consecutive values of the ascending
\* list of distinct values, in ascending order; LOC values 50, 80, 90, 60
\* give 55, 70, 85.
C15_MidpointsOfSortedValues ==
  (last.op = "get_possible_splits" /\ ret.raised = "")
    => LET rows == RowsOf(nodes, Root)
           sorted == Ascending({rows[i].LOC : i \in 1..Len(rows)})
           found == SelectSeq(ret.tests, LAMBDA t : t.attribute = "LOC")
       IN  /\ Len(found) = IF Len(sorted) = 0 THEN 0 ELSE Len(sorted) - 1
           /\ \A j \in 1..Len(found) :
                /\ found[j].attribute_type = "numerical"
                /\ found[j].split_value.tag = "num"
                /\ 2 * found[j].split_value.num = sorted[j] + sorted[j + 1]

\* C16: get_split_supports(t) on a leaf leaves the node as it was and
\* returns one class-support dictionary per child split would create on that
\* node with a strategy returning t, in the same order.  Stated for the
\* tests t on which split itself returns.
C16_SplitSupportsMatchSplit ==
  (last.op = "get_split_supports" /\ last.was_leaf
     /\ split(nodes, Root, last.test, FALSE).result \in {"True", "False"})
    => LET after == split(nodes, Root, last.test, FALSE).nodes
           created == after[Root].children
       IN  /\ ret.raised = ""
           /\ ret.supports
                = [i \in 1..Len(created) |-> after[created[i]].class_supports]
           /\ nodes[Root].is_leaf
           /\ nodes[Root].children = <<>>

\* C17: num_errors with cost_sensitive = False returns, for every non-empty
\* class_supports, the sum of all supports minus the largest support (11 for
\* {Y: 35, N: 11}).
C17_ErrorsAreTotalMinusLargest ==
  (last.op = "num_errors" /\ ~ret.opts.cost_sensitive
     /\ DOMAIN nodes[Root].class_supports # {})
    => LET supports == nodes[Root].class_supports
       IN  /\ ret.raised = ""
           /\ \E k \in DOMAIN supports :
                /\ \A j \in DOMAIN supports : supports[j] <= supports[k]
                /\ ret.num = SumSupports(supports) - supports[k]

\* C18: num_errors with cost_sensitive = True raises ValueError whenever the
\* cost matrix lacks one of TP, TN, FP, FN, before any cost is computed; with
\* cost_sensitive = False the cost matrix has no influence: the call ends as
\* it does with a complete matrix.
C18_MissingCostKey ==
  last.op = "num_errors"
    => /\ (ret.opts.cost_sensitive /\ ret.opts.cost_keys # CostKeys)
            => (ret.raised = "ValueError" /\ ~ret.opts.costs_computed)
       /\ ~ret.opts.cost_sensitive
            => LET full == num_errors(nodes, Root, FALSE, CostKeys,
                                      ret.opts.positive_class,
                                      ret.opts.positive_cheaper, ret.py)
               IN  ret.raised = full.raised /\ ret.num = full.num

\* A cost-sensitive call with a matrix that lacks only FN, on a node that
\* holds the positive class.
C18_Witness ==
  /\ last.op = "num_errors"
  /\ ret.opts.cost_sensitive
  /\ ret.opts.cost_keys = CostKeys \ {"FN"}
  /\ ret.opts.positive_class \in DOMAIN nodes[Root].class_supports
  /\ ret.raised = "ValueError"

\* C19: Tree.num_nodes is the number of nodes reachable from the root (the
\* root and all its descendants); a root with two leaf children, as one
\* two-way split leaves it, gives 3.
C19_NumNodesCountsTree ==
  /\ num_nodes(nodes) = Cardinality(TreeNodes(nodes))
  /\ (Len(nodes[Root].children) = 2 /\ AllChildrenLeaves(nodes, Root))
       => num_nodes(nodes) = 3

C19_Witness ==
  /\ Len(nodes[Root].children) = 2
  /\ AllChildrenLeaves(nodes, Root)
  /\ num_nodes(nodes) = 3

\* C20: in a recursive split every descendant is itself split with the same
\* strategy arguments as the top-level call, and recursively in turn.  Stated
\* on the constructor call by which split builds a descendant: the strategy
\* receives the arguments the constructor was given and the descendant's
\* split is recursive.
C20_DescendantSplitSameArguments ==
  last.op = "build"
    => /\ ret.opts.args_received = ret.opts.args_given
       /\ ret.opts.recursive_received

\* The distinct values of column a among the records of node n.
Observed(ns, n, a) == {RowsOf(ns, n)[i][a] : i \in 1..Len(RowsOf(ns, n))}

\* C21: a recursive split of a node holding a finite data partition always
\* terminates: the call returns or raises, whatever the strategy returns
\* (None, a candidate of get_possible_splits of the node, or a categorical
\* test on an attribute with a single observed value).
C21_RecursiveSplitTerminates ==
  (stack # <<>> /\ Top.recursive)
    ~> (stack = <<>> /\ last.op = "split" /\ last.recursive
          /\ last.result \in {"True", "False", "ValueError", "TypeError",
                              "AttributeError", "NameError"})

\* A recursive split of a leaf with records, on a categorical test whose
\* attribute has one observed value, has ended.
C21_Witness ==
  /\ stack = <<>>
  /\ last.op = "split"
  /\ last.recursive
  /\ last.was_leaf
  /\ last.test.attribute_type = "categorical"
  /\ Cardinality(Observed(nodes, last.node, last.test.attribute)) = 1

\* The current leaves of the tree.
Leaves(ns) == {n \in TreeNodes(ns) : ns[n].is_leaf}

\* How many times record r is held by the nodes of set S, taken together.
RECURSIVE HeldBy(_, _, _)
HeldBy(ns, S, r) ==
  IF S = {} THEN 0
  ELSE LET n == CHOOSE x \in S : TRUE
       IN  Occurrences(RowsOf(ns, n), r) + HeldBy(ns, S \ {n}, r)

\* Every record value held anywhere in the arena.
RecordsIn(ns) ==
  UNION {{RowsOf(ns, n)[i] : i \in 1..Len(RowsOf(ns, n))} : n \in NodeIds(ns)}

\* C22: in every state reached from a fresh root by split and prune calls,
\* whether they succeed or not, the data_points of the current leaves are
\* pairwise disjoint and their union is the root's data_points: every record
\* of the root is held by the leaves exactly as often as by the root, and
\* the leaves hold nothing else.
C22_LeavesPartitionRoot ==
  \A r \in RecordsIn(nodes) :
    HeldBy(nodes, Leaves(nodes), r) = Occurrences(RowsOf(nodes, Root), r)

\* A split has been called on a root holding three records, two of them
\* equal, with a test that separates them.
C22_Witness ==
  /\ last.op = "split"
  /\ Separates(nodes, Root, last.test)
  /\ Len(RowsOf(nodes, Root)) = 3
  /\ Cardinality(RecordsIn(nodes)) = 2

\* C23: a prune that returns True on a node that a split had turned into an
\* internal node restores the node to its pre-split state (a leaf with no
\* children and no child branches, its data_points, class_supports and
\* parent_branch untouched), so that split may be called on it again: with
\* the strategy of the first split, one whose test separates the node's
\* records, the split returns True again.
C23_SplitPruneRoundTrip ==
  [][(last'.op = "prune" /\ last'.result = "True"
        /\ nodes[last'.node].children # <<>>)
       => LET n == last'.node
          IN  /\ nodes'[n].is_leaf
              /\ nodes'[n].children = <<>>
              /\ nodes'[n].child_branches = <<>>
              /\ nodes'[n].data_points = nodes[n].data_points
              /\ nodes'[n].class_supports = nodes[n].class_supports
              /\ nodes'[n].parent_branch = nodes[n].parent_branch
              /\ \A t \in StrategyReturns :
                   Separates(nodes', n, t)
                     => split(nodes', n, t, FALSE).result = "True"]_vars

\* C24: the node constructed as the tree's entry node (is_root requested)
\* has is_root true and no parent_branch, and no other node of the tree has
\* is_root true: in every reachable state exactly one node of the tree, the
\* root, has is_root = true.
C24_ExactlyOneRoot ==
  /\ nodes[Root].is_root
  /\ nodes[Root].parent_branch.py_none
  /\ {n \in TreeNodes(nodes) : nodes[n].is_root} = {Root}

\* The position of a column name among the columns.
ColumnIndex(name) == CHOOSE c \in 1..Len(Columns) : Columns[c] = name

\* C25: a node built from data classifies every non-numeric column as
\* categorical and every numeric column as numerical in attribute_types, and
\* get_possible_splits returns exactly one categorical candidate naming each
\* categorical column, the candidates of different columns appearing in the
\* columns' original order.
C25_AttributeTypesFollowColumns ==
  ~nodes[Root].data_points.py_none
    => /\ \A c \in 1..Len(Columns) :
            nodes[Root].attribute_types[c]
              = IF Columns[c] \in NumericColumns THEN "numerical"
                ELSE "categorical"
       /\ last.op = "get_possible_splits"
            => /\ ret.raised = ""
               /\ \A c \in 1..Len(Columns) :
                    Columns[c] \notin NumericColumns
                      => SelectSeq(ret.tests, LAMBDA t : t.attribute = Columns[c])
                           = <<Split_Test("categorical", Columns[c], PyNone,
                                          "None")>>
               /\ \A i, j \in 1..Len(ret.tests) :
                    i < j => ColumnIndex(ret.tests[i].attribute)
                               <= ColumnIndex(ret.tests[j].attribute)

\* C26: get_possible_splits never returns a candidate whose attribute is the
\* node's class attribute: with a numeric column LOC and a numeric 0/1 class
\* column Defective, every candidate returned tests another column than
\* Defective.
C26_NoCandidateOnClassAttribute ==
  (last.op = "get_possible_splits" /\ ret.raised = "")
    => \A i \in 1..Len(ret.tests) :
         ret.tests[i].attribute # nodes[Root].class_attribute

====
